---- MODULE Spec2Model ----
(***************************************************************************)
(* resilience.js: constantRetry / exponentialRetry (retry.js), deadline    *)
(* (deadline.js), timeout / delay / TimeoutError (index.js) and the        *)
(* notifier slot (helpers.js), as one state machine per call.              *)
(*                                                                         *)
(* One behaviour is one call of one of the three public operations with    *)
(* arguments drawn in Init, followed by the callbacks the promise chain    *)
(* of that call runs.  The task (`run`), the timers and the registered     *)
(* observer are the environment: a task invocation settles with any value  *)
(* or failure, a timer elapses at any time after it was started, an        *)
(* observer returns or throws.                                             *)
(***************************************************************************)
EXTENDS Integers, Sequences, FiniteSets, TLC

\* ---------------------------------------------------------------- bounds
MaxRetries == 3
MaxInterval == 2
MaxMs == 2

\* ------------------------------------------------------ program constants
CONSTANT_TYPE == "constant"
EXPONENTIAL == "exponential"
DEFAULT_RETRIES == 1
DEFAULT_INTERVAL == 1000
TimeoutError == "Timed out"

\* An omitted argument (JavaScript `undefined`); like 0 it is falsy.
undefined == 0 - 1

\* Mutant: only an omitted argument counts (`x === undefined`), 0 does not.
Falsy_onlyUndefined(x) == x = undefined
Falsy(x) == x = undefined \/ x = 0

\* ------------------------------------------------------------ environment
\* What a task invocation can fulfil with / fail with.  A task may fail with
\* the TimeoutError sentinel itself: it is an exported value.
Values == {"ok1", "ok2"}
TaskErrors == {"E1", "E2", TimeoutError}
\* What a throwing observer throws.
ObserverError == "ObsErr"
\* The observers a caller may register; "noop" is the slot's default.
Observers == {"f", "g"}

NoCtx == [retries |-> <<0, 0>>, intervals |-> <<>>]
Pending == [state |-> "pending", value |-> "none"]
Idle == [state |-> "idle", value |-> "none"]
NoTimer == [state |-> "none", ms |-> 0]

VARIABLES
  op,        \* "constantRetry" | "exponentialRetry" | "deadline"
  args,      \* [run, retries, interval, ms]: the arguments of the call
  pc,        \* position of the call's promise chain
  ctx,       \* retry.js: the engine's context {retries: [done, max], intervals}
  ctxClone,  \* retry.js: the clone captured by the pending `.then(() => notify(..))`
  err,       \* the failure captured by the pending handler
  timer,     \* the timer of the pending delay(): [state, ms]
  _notify,   \* helpers.js: the slot `_notify` of createNotifier()
  setThrew,  \* helpers.js: a call of set() has thrown 'Expected `notify` ...'
  tampered,  \* an observer has rewritten the snapshot it was handed
  tasks,     \* the invocations of `run`, in order: [state, value] each
  notes,     \* the notifications delivered, in order: [to, args, outcome]
  waits,     \* the durations handed to delay(), in order
  result,    \* the returned promise: [state, value]
  trace      \* the events of the call, in order

vars == <<op, args, pc, ctx, ctxClone, err, timer, _notify, setThrew,
          tampered, tasks, notes, waits, result, trace>>

\* The latest invocation of `run`, and the number of invocations.
runs == Len(tasks)
task == IF tasks = <<>> THEN Idle ELSE tasks[Len(tasks)]
settleTask(o) == [tasks EXCEPT ![Len(tasks)] = o]

\* ------------------------------------------------------------- retry.js
RECURSIVE createConstantIntervalsFrom(_, _, _)
createConstantIntervalsFrom(i, retries, interval) ==
  IF i < retries
    THEN <<interval>> \o createConstantIntervalsFrom(i + 1, retries, interval)
    ELSE <<>>

\* for (let i = 0; i < retries; i++) res.push(interval)
createConstantIntervals(retries, interval) ==
  createConstantIntervalsFrom(0, retries, interval)

RECURSIVE createExponentialIntervalsFrom(_, _, _)
createExponentialIntervalsFrom(i, retries, next) ==
  IF i < retries
    THEN <<next>> \o createExponentialIntervalsFrom(i + 1, retries, next * 2)
    ELSE <<>>

\* Mutant: `next += interval` instead of `next *= 2` (linear growth).
RECURSIVE createLinearIntervalsFrom(_, _, _, _)
createLinearIntervalsFrom(i, retries, next, interval) ==
  IF i < retries
    THEN <<next>> \o createLinearIntervalsFrom(i + 1, retries, next + interval, interval)
    ELSE <<>>

createExponentialIntervals_linear(retries, interval) ==
  createLinearIntervalsFrom(0, retries, interval, interval)

\* let next = interval; for (let i = 0; i < retries; next *= 2, i++) res.push(next)
createExponentialIntervals(retries, interval) ==
  createExponentialIntervalsFrom(0, retries, interval)

createContext(type, retries, interval) ==
  [retries |-> <<0, IF Falsy(retries) THEN 0 ELSE retries>>,
   intervals |-> IF type = EXPONENTIAL
                   THEN createExponentialIntervals(retries, interval)
                   ELSE createConstantIntervals(retries, interval)]

\* Mutant: shift() that returns the head but leaves it in the list.
afterShift_keepsHead(s) == s

\* Array.prototype.shift(): the removed head (undefined when empty).
shifted(s) == IF s = <<>> THEN undefined ELSE Head(s)
afterShift(s) == IF s = <<>> THEN <<>> ELSE Tail(s)

\* Mutant: the clone is taken after intervals.shift(), so the snapshot no
\* longer shows the interval this retry consumes.
cloneContext_afterShift(c) ==
  [retries |-> SubSeq(c.retries, 1, Len(c.retries)),
   intervals |-> afterShift(c.intervals)]

\* Both fields are copied (slice(0)); the model's values are immutable, so the
\* copy is the value read at this point.
cloneContext(c) ==
  [retries |-> SubSeq(c.retries, 1, Len(c.retries)),
   intervals |-> SubSeq(c.intervals, 1, Len(c.intervals))]

\* retries = retries || DEFAULT_RETRIES ; interval = interval || DEFAULT_INTERVAL
effectiveRetries(retries) == IF Falsy(retries) THEN DEFAULT_RETRIES ELSE retries
effectiveInterval(interval) == IF Falsy(interval) THEN DEFAULT_INTERVAL ELSE interval

retryType == IF op = "exponentialRetry" THEN EXPONENTIAL ELSE CONSTANT_TYPE

\* Mutant: once the retries are exhausted the chain rejects with the
\* TimeoutError sentinel instead of the failure it was handed.
handle_rejectsSentinel(e, ev) ==
  LET done == ctx.retries[1]
      max == ctx.retries[2]
  IN IF done < max
       THEN LET c1 == [ctx EXCEPT !.retries[1] = @ + 1]
                ms == shifted(c1.intervals)
            IN /\ ctxClone' = cloneContext(c1)
               /\ ctx' = [c1 EXCEPT !.intervals = afterShift(@)]
               /\ err' = e
               /\ timer' = [state |-> "pending", ms |-> ms]
               /\ waits' = Append(waits, ms)
               /\ pc' = "delay"
               /\ trace' = trace \o <<ev, "timerStart">>
               /\ UNCHANGED result
       ELSE /\ result' = [state |-> "rejected", value |-> TimeoutError]
            /\ pc' = "done"
            /\ trace' = trace \o <<ev, "settle">>
            /\ UNCHANGED <<ctx, ctxClone, err, timer, waits>>

\* The rejection handler `err => {...}` returned by handle(fn, notify, ctx);
\* `ev` is the event that rejected the chain (a task failure or an observer's
\* throw), logged in front of what the handler does.
handle(e, ev) ==
  LET done == ctx.retries[1]
      max == ctx.retries[2]
  IN IF done < max
       THEN LET c1 == [ctx EXCEPT !.retries[1] = @ + 1]
                ms == shifted(c1.intervals)
            IN /\ ctxClone' = cloneContext(c1)
               /\ ctx' = [c1 EXCEPT !.intervals = afterShift(@)]
               /\ err' = e
               /\ timer' = [state |-> "pending", ms |-> ms]
               /\ waits' = Append(waits, ms)
               /\ pc' = "delay"
               /\ trace' = trace \o <<ev, "timerStart">>
               /\ UNCHANGED result
       ELSE /\ result' = [state |-> "rejected", value |-> e]
            /\ pc' = "done"
            /\ trace' = trace \o <<ev, "settle">>
            /\ UNCHANGED <<ctx, ctxClone, err, timer, waits>>

\* retry(type, run, retries, interval)
retry ==
  /\ pc = "start"
  /\ op \in {"constantRetry", "exponentialRetry"}
  /\ IF args.run # "function"
       THEN /\ pc' = "threw"
            /\ UNCHANGED <<ctx, tasks, trace>>
       ELSE /\ ctx' = createContext(retryType, effectiveRetries(args.retries),
                                    effectiveInterval(args.interval))
            /\ tasks' = Append(tasks, Pending)
            /\ trace' = Append(trace, "run")
            /\ pc' = "run"
  /\ UNCHANGED <<op, args, ctxClone, err, timer, _notify, setThrew, tampered, notes, waits, result>>

\* The task invocation fulfils: the chain's catch handlers are skipped.
RetryTaskFulfils ==
  /\ op \in {"constantRetry", "exponentialRetry"}
  /\ pc = "run"
  /\ \E v \in Values :
       /\ tasks' = settleTask([state |-> "fulfilled", value |-> v])
       /\ result' = [state |-> "fulfilled", value |-> v]
  /\ pc' = "done"
  /\ trace' = trace \o <<"ok", "settle">>
  /\ UNCHANGED <<op, args, ctx, ctxClone, err, timer, _notify, setThrew, tampered, notes, waits>>

\* The task invocation fails (a rejected promise, or a throw inside the
\* executor / then callback): the rejection handler runs.  The handler never
\* looks at the error, so the sentinel is left to deadline()'s tasks.
RetryTaskFails ==
  /\ op \in {"constantRetry", "exponentialRetry"}
  /\ pc = "run"
  /\ \E e \in TaskErrors \ {TimeoutError} :
       /\ tasks' = settleTask([state |-> "rejected", value |-> e])
       /\ handle(e, "fail")
  /\ UNCHANGED <<op, args, _notify, setThrew, tampered, notes>>

\* Mutant: the chain lacks `.then(() => notify(ctxClone, err))`; the task is
\* invoked again as soon as the timer has elapsed.
RetryTimerElapses_noNotify ==
  /\ op \in {"constantRetry", "exponentialRetry"}
  /\ pc = "delay"
  /\ timer' = [timer EXCEPT !.state = "fired"]
  /\ tasks' = Append(tasks, Pending)
  /\ pc' = "run"
  /\ trace' = trace \o <<"timerElapse", "run">>
  /\ UNCHANGED <<op, args, ctx, ctxClone, err, _notify, setThrew, tampered, notes, waits, result>>

\* setTimeout fires: delay() resolves, the chain moves on to the notification.
RetryTimerElapses ==
  /\ op \in {"constantRetry", "exponentialRetry"}
  /\ pc = "delay"
  /\ timer' = [timer EXCEPT !.state = "fired"]
  /\ pc' = "notify"
  /\ trace' = Append(trace, "timerElapse")
  /\ UNCHANGED <<op, args, ctx, ctxClone, err, _notify, setThrew, tampered, tasks, notes, waits,
                 result>>

\* typeof notify === 'function'
IsFunction(fn) == fn \in Observers

\* helpers.js notify(...args): calls whatever the slot holds now.  The default
\* no-op returns; a registered observer returns or throws; calling anything
\* that is no function throws.
Outcomes(o) ==
  IF o = "noop" THEN {"return"}
  ELSE IF IsFunction(o) THEN {"return", "throw"}
  ELSE {"throw"}

\* Mutant: a shallow clone, `{ retries: ctx.retries, intervals: ctx.intervals }`.
cloneShares_shallow == {"retries", "intervals"}

\* The fields of a clone that are the very arrays of the engine's context:
\* cloneContext() builds both with slice(0), so none is.
cloneShares == {}

\* What an observer may leave in the snapshot object it was handed: it as it
\* was, counters and list wiped, or counters rewritten and the list extended.
\* The no-op touches nothing.
Tamperings(o, c) ==
  IF o = "noop" THEN {c}
  ELSE {c,
        [retries |-> <<0, 0>>, intervals |-> <<>>],
        [retries |-> <<0, c.retries[2] + 1>>, intervals |-> c.intervals \o <<1>>]}

\* The engine's context after the observer turned its snapshot `snap` into
\* `t`: only the fields the snapshot shares with the context change, and only
\* when the observer wrote at all.
writtenThrough(c, snap, t) ==
  IF t = snap THEN c
  ELSE [f \in DOMAIN c |-> IF f \in cloneShares THEN t[f] ELSE c[f]]

\* Mutant: notify is bound to the function the slot held when the notifier was
\* created (the no-op) instead of reading the slot at each call.
notify_boundAtCreation(a, outcome) ==
  notes' = Append(notes, [to |-> "noop", args |-> a, outcome |-> outcome])

notify(a, outcome) ==
  notes' = Append(notes, [to |-> _notify, args |-> a, outcome |-> outcome])

\* Mutant: the chain is not hung on the promise of delay(): the notification
\* and the re-invocation do not wait for the timer.
RetryNotifies_withoutWaiting ==
  /\ op \in {"constantRetry", "exponentialRetry"}
  /\ pc \in {"delay", "notify"}
  /\ \E outcome \in Outcomes(_notify), t \in Tamperings(_notify, ctxClone) :
       /\ notify(<<ctxClone, err>>, outcome)
       /\ tampered' = (tampered \/ t # ctxClone)
       /\ IF outcome = "return"
            THEN /\ ctx' = writtenThrough(ctx, ctxClone, t)
                 /\ tasks' = Append(tasks, Pending)
                 /\ pc' = "run"
                 /\ trace' = trace \o <<"notify", "run">>
                 /\ UNCHANGED <<ctxClone, err, timer, waits, result>>
            ELSE /\ handle(ObserverError, "notifyThrow")
                 /\ UNCHANGED tasks
  /\ UNCHANGED <<op, args, _notify, setThrew>>

\* `.then(() => notify(ctxClone, err))`, and when it returns `.then(fn)`: the
\* task is invoked again.  When the observer throws, fn is skipped and the
\* chain's rejection handler runs with what was thrown.  The observer may
\* write `t` into the object it was handed; the chain never reads that object
\* again, so of the write only what reaches the engine's context is kept.
RetryNotifies ==
  /\ op \in {"constantRetry", "exponentialRetry"}
  /\ pc = "notify"
  /\ \E outcome \in Outcomes(_notify), t \in Tamperings(_notify, ctxClone) :
       /\ notify(<<ctxClone, err>>, outcome)
       /\ tampered' = (tampered \/ t # ctxClone)
       /\ IF outcome = "return"
            THEN /\ ctx' = writtenThrough(ctx, ctxClone, t)
                 /\ tasks' = Append(tasks, Pending)
                 /\ pc' = "run"
                 /\ trace' = trace \o <<"notify", "run">>
                 /\ UNCHANGED <<ctxClone, err, timer, waits, result>>
            ELSE /\ handle(ObserverError, "notifyThrow")
                 /\ UNCHANGED tasks
  /\ UNCHANGED <<op, args, _notify, setThrew>>

\* ------------------------------------------------------------ helpers.js
\* Each registration passes a function not registered before: "f" first, then
\* "g" in its place (the observers differ in nothing but their identity).
NextObserver(o) == IF o = "noop" THEN "f" ELSE "g"

\* What a caller may pass to promise.notify() that is no function.
NonFunctions == {"test"}

\* Mutant: the slot is written before the typeof check, so a value that is no
\* function is in the slot when set() throws.
set_assignsFirst ==
  /\ pc \notin {"start", "threw"}
  /\ \E fn \in Observers \cup NonFunctions :
       IF ~IsFunction(fn)
         THEN /\ setThrew' = TRUE
              /\ _notify' = fn
         ELSE /\ fn # _notify
              /\ fn = NextObserver(_notify)
              /\ _notify' = fn
              /\ UNCHANGED setThrew
  /\ UNCHANGED <<op, args, pc, ctx, ctxClone, err, timer, tampered, tasks, notes,
                 waits, result, trace>>

\* set(notify): promise.notify(fn).  Anything that is no function throws before
\* the slot is written.
set ==
  /\ pc \notin {"start", "threw"}
  /\ \E fn \in Observers \cup NonFunctions :
       IF ~IsFunction(fn)
         THEN /\ setThrew' = TRUE
              /\ UNCHANGED _notify
         ELSE /\ fn # _notify
              /\ fn = NextObserver(_notify)
              /\ _notify' = fn
              /\ UNCHANGED setThrew
  /\ UNCHANGED <<op, args, pc, ctx, ctxClone, err, timer, tampered, tasks, notes,
                 waits, result, trace>>

\* ------------------------------------------------- deadline.js / index.js
\* timeout(promise, ms): delay(ms) is started; the race is between the task
\* and `delayed`, which rejects with TimeoutError.
\* deadline(run, ms)
deadline ==
  /\ pc = "start"
  /\ op = "deadline"
  /\ IF args.run # "function"
       THEN /\ pc' = "threw"
            /\ UNCHANGED <<tasks, timer, waits, trace>>
       ELSE /\ tasks' = Append(tasks, Pending)
            /\ IF ~Falsy(args.ms)
                 THEN /\ timer' = [state |-> "pending", ms |-> args.ms]
                      /\ waits' = Append(waits, args.ms)
                      /\ trace' = trace \o <<"run", "timerStart">>
                      /\ pc' = "racing"
                 ELSE /\ trace' = Append(trace, "run")
                      /\ pc' = "plain"
                      /\ UNCHANGED <<timer, waits>>
  /\ UNCHANGED <<op, args, ctx, ctxClone, err, _notify, setThrew, tampered, notes, result>>

\* The task settles.  While the race is undecided its outcome decides it: a
\* fulfilment passes the catch() untouched, a rejection is caught by the
\* handler of handle().  Without a deadline the returned promise is the task's.
\* After the race was decided the outcome is dropped.
DeadlineTaskSettles ==
  /\ op = "deadline"
  /\ task.state = "pending"
  /\ \E o \in ([state : {"fulfilled"}, value : Values]
               \cup [state : {"rejected"}, value : TaskErrors]) :
       /\ tasks' = settleTask(o)
       /\ trace' = Append(trace, IF o.state = "fulfilled" THEN "ok" ELSE "fail")
       /\ CASE pc = "plain" ->
                 /\ result' = o
                 /\ pc' = "done"
                 /\ UNCHANGED err
            [] pc = "racing" /\ o.state = "fulfilled" ->
                 /\ result' = o
                 /\ pc' = "done"
                 /\ UNCHANGED err
            [] pc = "racing" /\ o.state = "rejected" ->
                 /\ err' = o.value
                 /\ pc' = "caught"
                 /\ UNCHANGED result
            [] OTHER -> UNCHANGED <<pc, err, result>>
  /\ UNCHANGED <<op, args, ctx, ctxClone, timer, _notify, setThrew, tampered, notes, waits>>

\* setTimeout fires: `delayed` rejects with TimeoutError, which decides the race
\* when it is still undecided.  (A macrotask: it cannot run between a rejection
\* of the race and the catch handler, which are microtasks apart.)
DeadlineTimerElapses ==
  /\ op = "deadline"
  /\ timer.state = "pending"
  /\ pc # "caught"
  /\ timer' = [timer EXCEPT !.state = "fired"]
  /\ trace' = Append(trace, "timerElapse")
  /\ IF pc = "racing"
       THEN /\ err' = TimeoutError
            /\ pc' = "caught"
       ELSE UNCHANGED <<pc, err>>
  /\ UNCHANGED <<op, args, ctx, ctxClone, _notify, setThrew, tampered, tasks, notes, waits, result>>

\* Mutant: the handler notifies on every rejection (no `err === TimeoutError`).
deadlineHandle_alwaysNotifies ==
  /\ op = "deadline"
  /\ pc = "caught"
  /\ \E outcome \in Outcomes(_notify) :
       /\ notify(<<args.ms>>, outcome)
       /\ result' = [state |-> "rejected",
                     value |-> IF outcome = "throw" THEN ObserverError ELSE err]
       /\ trace' = trace \o <<IF outcome = "throw" THEN "notifyThrow" ELSE "notify",
                              "settle">>
  /\ pc' = "done"
  /\ UNCHANGED <<op, args, ctx, ctxClone, err, timer, _notify, setThrew, tampered, tasks, waits>>

\* deadline.js handle(): `err => { if (err === TimeoutError) notify(ms);
\* return Promise.reject(err) }`
deadlineHandle ==
  /\ op = "deadline"
  /\ pc = "caught"
  /\ IF err = TimeoutError
       THEN \E outcome \in Outcomes(_notify) :
              /\ notify(<<args.ms>>, outcome)
              /\ result' = [state |-> "rejected",
                            value |-> IF outcome = "throw" THEN ObserverError
                                                           ELSE err]
              /\ trace' = trace \o <<IF outcome = "throw" THEN "notifyThrow"
                                                            ELSE "notify", "settle">>
       ELSE /\ result' = [state |-> "rejected", value |-> err]
            /\ trace' = Append(trace, "settle")
            /\ UNCHANGED notes
  /\ pc' = "done"
  /\ UNCHANGED <<op, args, ctx, ctxClone, err, timer, _notify, setThrew, tampered, tasks, waits>>

\* ------------------------------------------------------------------ spec
RetriesArgs == {undefined} \cup (0 .. MaxRetries)
IntervalArgs == {undefined} \cup (1 .. MaxInterval)
MsArgs == {undefined} \cup (0 .. MaxMs)

Init ==
  /\ op \in {"constantRetry", "exponentialRetry", "deadline"}
  /\ args \in [run : {"function", "string"},
               retries : IF op = "deadline" THEN {undefined} ELSE RetriesArgs,
               interval : IF op = "deadline" THEN {undefined} ELSE IntervalArgs,
               ms : IF op = "deadline" THEN MsArgs ELSE {undefined}]
  /\ pc = "start"
  /\ ctx = NoCtx
  /\ ctxClone = NoCtx
  /\ err = "none"
  /\ timer = NoTimer
  /\ _notify = "noop"
  /\ setThrew = FALSE
  /\ tampered = FALSE
  /\ tasks = <<>>
  /\ notes = <<>>
  /\ waits = <<>>
  /\ result = Pending
  /\ trace = <<>>

Next ==
  \/ retry
  \/ RetryTaskFulfils
  \/ RetryTaskFails
  \/ RetryTimerElapses
  \/ RetryNotifies
  \/ set
  \/ deadline
  \/ DeadlineTaskSettles
  \/ DeadlineTimerElapses
  \/ deadlineHandle

Spec == Init /\ [][Next]_vars

\* ---------------------------------------------------------------- claims
IsRetry == op \in {"constantRetry", "exponentialRetry"}
IsDeadline == op = "deadline"
Called == pc \notin {"start", "threw"}
NotifyEvents == {"notify", "notifyThrow"}

RECURSIVE Pow2(_)
Pow2(n) == IF n = 0 THEN 1 ELSE 2 * Pow2(n - 1)

\* The interval the caller asked for (1000 when it is omitted) and the
\* documented schedule: element j (0-indexed) is i for the constant back-off
\* and i * 2^j for the exponential one.
AskedInterval == IF args.interval = undefined THEN 1000 ELSE args.interval
Schedule(j) ==
  IF op = "exponentialRetry" THEN AskedInterval * Pow2(j) ELSE AskedInterval
\* Its elements k-1 .. r-1 (0-indexed): the last r-k+1 of r.
ScheduleFrom(k, r) == [n \in 1 .. (r - k + 1) |-> Schedule(k + n - 2)]

TaskAlwaysFailed == \A n \in 1 .. Len(tasks) : tasks[n].state # "fulfilled"
Count(tr, evs) == Cardinality({i \in DOMAIN tr : tr[i] \in evs})

\* C1: with retries = r >= 1 and a task that fails whenever it is invoked, the
\* observer is invoked exactly r times; the k-th invocation receives counters
\* [k, r] and the last r-k+1 elements of the schedule (the interval consumed
\* by this retry still at the front); no invocation comes before the first
\* failure or after the final one.
C1_ObserverContexts ==
  (IsRetry /\ Called /\ args.retries >= 1 /\ TaskAlwaysFailed) =>
    LET r == args.retries
    IN /\ Len(notes) <= r
       /\ Count(trace, NotifyEvents) = Len(notes)
       /\ \A k \in 1 .. Len(notes) :
            notes[k].args[1] = [retries |-> <<k, r>>,
                                intervals |-> ScheduleFrom(k, r)]
       /\ (pc = "done" => Len(notes) = r /\ result.state = "rejected")
       /\ \A i \in DOMAIN trace :
            trace[i] \in NotifyEvents =>
              /\ \E j \in 1 .. (i - 1) : trace[j] = "fail"
              /\ \A j \in 1 .. (i - 1) : trace[j] # "settle"

C1_Witness ==
  /\ op = "exponentialRetry"
  /\ args.retries = 3
  /\ args.interval = 2
  /\ pc = "done"
  /\ TaskAlwaysFailed
  /\ runs = 4
  /\ Len(notes) = 3
  /\ notes[3].args[1] = [retries |-> <<3, 3>>, intervals |-> <<8>>]

\* C2 as stated: the observer is called before the timer of its retry starts,
\* so every timer start of a retry sequence directly follows an observer call.
C2_NotifyBeforeDelay ==
  IsRetry => \A i \in DOMAIN trace :
               trace[i] = "timerStart" => i > 1 /\ trace[i - 1] \in NotifyEvents

\* C2 amended: the observer of a retry is called after the timer of that retry
\* has elapsed: each retry is failure (of the task, or a throw of the previous
\* observer call), timer start, timer elapse, observer call and, when the
\* observer returns, the re-invocation of the task directly after it.
C2_NotifyAfterDelay ==
  IsRetry => \A i \in DOMAIN trace :
    /\ trace[i] = "timerStart" => i > 1 /\ trace[i - 1] \in {"fail", "notifyThrow"}
    /\ trace[i] = "timerElapse" => i > 1 /\ trace[i - 1] = "timerStart"
    /\ trace[i] \in NotifyEvents => i > 1 /\ trace[i - 1] = "timerElapse"
    /\ (trace[i] = "run" /\ i > 1) => trace[i - 1] = "notify"
    /\ (trace[i] = "notify" /\ i < Len(trace)) => trace[i + 1] = "run"
    /\ (trace[i] = "timerElapse" /\ i < Len(trace)) => trace[i + 1] \in NotifyEvents

C2_Witness ==
  /\ IsRetry
  /\ Len(trace) >= 6
  /\ SubSeq(trace, 1, 6) = <<"run", "fail", "timerStart", "timerElapse", "notify", "run">>
  /\ notes[1].to = "f"

\* The number of retries the caller asked for (1 when it is omitted).
AskedRetries == IF args.retries = undefined THEN 1 ELSE args.retries
ObserverReturned == \A k \in 1 .. Len(notes) : notes[k].outcome = "return"

\* C3: called with retries = 0 the task is invoked exactly once, the observer
\* never, no timer is started, and a failure of the single invocation is the
\* result at once.
C3_ZeroRetries ==
  (IsRetry /\ Called /\ args.retries = 0) =>
    /\ runs = 1
    /\ notes = <<>>
    /\ waits = <<>>
    /\ timer.state = "none"
    /\ (task.state = "rejected" => result = task)

\* C4: when the observer returns normally, a settled retry sequence has made
\* 1 + (observer invocations) = 1 + completed task invocations, and never
\* more than 1 + retries.
C4_InvocationCount ==
  (IsRetry /\ Called /\ ObserverReturned) =>
    /\ runs <= 1 + AskedRetries
    /\ (pc = "done" => runs = 1 + Len(notes) /\ runs = 1 + ctx.retries[1])

C6_SuccessOnKth ==
  (IsRetry /\ Called /\ task.state = "fulfilled" /\ runs <= AskedRetries + 1) =>
    /\ result = task
    /\ pc = "done"
    /\ Len(notes) = runs - 1
    /\ Len(waits) = runs - 1
    /\ timer.state # "pending"
    /\ Len(ctx.intervals) = ctx.retries[2] - (runs - 1)

\* C7: the k-th wait of a retry sequence is schedule[k-1] (interval, or
\* interval * 2^(k-1)), the element removed from the front of the queue in that
\* step and the head of the k-th snapshot's intervals; the waits and the queue
\* left are together the schedule, so no element is waited twice.
C7_WaitIsSchedule ==
  (IsRetry /\ Called) =>
    /\ \A k \in 1 .. Len(waits) :
         /\ waits[k] = Schedule(k - 1)
         /\ k <= Len(notes) => waits[k] = Head(notes[k].args[1].intervals)
    /\ Count(trace, {"timerStart"}) = Len(waits)
    /\ Len(waits) = ctx.retries[1]
    /\ waits \o ctx.intervals = [n \in 1 .. ctx.retries[2] |-> Schedule(n - 1)]
    /\ (pc = "delay" => timer = [state |-> "pending", ms |-> waits[Len(waits)]])
    /\ (pc = "run" /\ runs > 1 =>
          timer = [state |-> "fired", ms |-> waits[Len(waits)]])

C7_Witness ==
  /\ op = "exponentialRetry"
  /\ args.interval = undefined
  /\ args.retries = 3
  /\ waits = <<1000, 2000, 4000>>
  /\ runs = 4
  /\ Head(notes[3].args[1].intervals) = 4000

\* The deadline's race: which of the task and the timer came first.
HasDeadline == IsDeadline /\ Called /\ ~Falsy(args.ms)
TimerElapsedFirst ==
  \E i \in DOMAIN trace :
    trace[i] = "timerElapse" /\ \A j \in 1 .. (i - 1) : trace[j] \notin {"ok", "fail"}
TaskSettledFirst ==
  \E i \in DOMAIN trace :
    trace[i] \in {"ok", "fail"} /\ \A j \in 1 .. (i - 1) : trace[j] # "timerElapse"

\* C8: when the timer elapses before the task settles, the result rejects with
\* the TimeoutError sentinel and the observer has been invoked exactly once, with
\* ms, by the time the rejection can be observed; never a second time.
C8_TimeoutNotifiesOnce ==
  (HasDeadline /\ TimerElapsedFirst) =>
    /\ Len(notes) <= 1
    /\ result.state # "fulfilled"
    /\ (result.state = "rejected" =>
          /\ result.value = TimeoutError
          /\ Len(notes) = 1
          /\ notes[1].args = <<args.ms>>)

\* C9: when the task fails before the timer elapses with the TimeoutError
\* sentinel itself, the registered observer is not invoked.
C9_TaskTimeoutErrorNotNotified ==
  (HasDeadline /\ TaskSettledFirst
     /\ task = [state |-> "rejected", value |-> TimeoutError]) =>
    \A k \in 1 .. Len(notes) : notes[k].to = "noop"

\* C10: when the task settles before the timer with a success or with a failure
\* other than TimeoutError, the result settles with that very outcome and the
\* observer is never invoked, also after the timer has fired.
C10_TaskOutcomeForwarded ==
  (HasDeadline /\ TaskSettledFirst
     /\ task # [state |-> "rejected", value |-> TimeoutError]) =>
    /\ notes = <<>>
    /\ (result.state # "pending" => result = task)
    /\ (pc = "done" => result = task)
    /\ (task.state = "fulfilled" => result = task)
    /\ pc \in {"caught", "done"}

C10_Witness ==
  /\ HasDeadline
  /\ TaskSettledFirst
  /\ task = [state |-> "rejected", value |-> "E1"]
  /\ result = task
  /\ timer.state = "fired"
  /\ _notify = "f"
  /\ notes = <<>>


\* C11: with ms 0 or omitted no timer is ever started, the result is the task's
\* outcome (pending while the task is pending) and the observer is never
\* invoked, whatever the task's outcome, a failure with TimeoutError included.
C11_NoDeadline ==
  (IsDeadline /\ Called /\ args.ms \in {0, undefined}) =>
    /\ timer = NoTimer
    /\ waits = <<>>
    /\ Count(trace, {"timerStart", "timerElapse"}) = 0
    /\ notes = <<>>
    /\ result = task
    /\ runs = 1

C11_Witness ==
  /\ IsDeadline
  /\ args.ms = 0
  /\ _notify = "f"
  /\ task = [state |-> "rejected", value |-> TimeoutError]
  /\ result = task
  /\ notes = <<>>


\* C12: the race does not cancel: when the timer elapses first the result is
\* settled with TimeoutError while the task invocation stays in flight and can
\* still complete; its later outcome leaves the result as it is and adds no
\* notification.
C12_RaceDoesNotCancel ==
  (HasDeadline /\ TimerElapsedFirst) =>
    /\ (pc = "done" => result = [state |-> "rejected", value |-> TimeoutError])
    /\ (pc = "done" /\ task.state = "pending" => ENABLED DeadlineTaskSettles)
    /\ Len(notes) <= 1
    /\ (task.state # "pending" /\ pc = "done" => Len(notes) = 1)


\* C13: the attempts of a retry sequence are strictly sequential: only the
\* latest invocation can be in flight, every earlier one has failed, a new
\* invocation starts only when every timer started so far has elapsed, and no
\* invocation is in flight while a retry timer is pending.
C13_Sequential ==
  (IsRetry /\ Called) =>
    /\ \A n \in 1 .. (runs - 1) : tasks[n].state = "rejected"
    /\ (task.state = "pending" <=> pc = "run")
    /\ (timer.state = "pending" <=> pc = "delay")
    /\ (task.state = "pending" => timer.state # "pending")
    /\ \A i \in 2 .. Len(trace) :
         trace[i] = "run" =>
           LET before == SubSeq(trace, 1, i - 1)
           IN /\ Count(before, {"run"}) = Count(before, {"fail"})
              /\ Count(before, {"timerStart"}) = Count(before, {"timerElapse"})
              /\ Count(before, {"timerStart"}) >= Count(before, {"run"})

C13_Witness ==
  /\ IsRetry
  /\ runs = 3
  /\ task.state = "pending"
  /\ timer.state = "fired"
  /\ Len(waits) = 2


\* The engine's context in the run whose observers leave every snapshot as it
\* is, after k retries: created by createContext, then k times counter + 1 and
\* the head interval removed.
RECURSIVE Advanced(_, _)
Advanced(c, k) ==
  IF k = 0 THEN c
  ELSE Advanced([retries |-> <<c.retries[1] + 1, c.retries[2]>>,
                 intervals |-> afterShift(c.intervals)], k - 1)
Untouched(k) ==
  Advanced(createContext(retryType, effectiveRetries(args.retries),
                         effectiveInterval(args.interval)), k)

\* C14: the snapshot is a defensive copy: whatever the observers wrote into the
\* snapshots they were handed, the engine's context, the durations waited, the
\* snapshots handed out later, the number of retries and the outcome are those
\* of the run in which the observers leave the snapshots untouched.
C14_DefensiveCopy ==
  (IsRetry /\ Called) =>
    LET created == Untouched(0)
        ref == [k \in 0 .. Len(waits) |-> Advanced(created, k)]
    IN /\ ctx = ref[Len(waits)]
       /\ \A k \in 1 .. Len(waits) : waits[k] = Head(ref[k - 1].intervals)
       /\ Len(notes) <= Len(waits)
       /\ \A k \in 1 .. Len(notes) :
            notes[k].args[1] = [retries |-> ref[k].retries,
                                intervals |-> ref[k - 1].intervals]
       /\ Len(waits) <= ref[0].retries[2]
       /\ (pc = "done" /\ result.state = "rejected" =>
             Len(waits) = ref[0].retries[2])
       /\ (pc = "done" /\ result.state = "fulfilled" => result = task)

C14_Witness ==
  /\ op = "exponentialRetry"
  /\ args.retries = 3
  /\ tampered
  /\ notes # <<>>
  /\ notes[1].to = "f"
  /\ Len(notes) = 3
  /\ pc = "done"
  /\ result.state = "rejected"


\* C15: the observer cannot affect the engine's control flow: whatever it does,
\* throwing included, each notified retry is followed by a re-invocation of the
\* task (as many invocations as with the no-op: one more than notifications)
\* and a final failure is the failure the task produced last.
C15_ObserverOnlyObserves ==
  (IsRetry /\ Called) =>
    /\ (pc \in {"run", "done"} => runs = 1 + Len(notes))
    /\ (pc = "done" /\ result.state = "rejected" =>
          /\ task.state = "rejected"
          /\ result.value = task.value)

\* C16: a failure delivered by deadline() is the task's own failure or the
\* TimeoutError sentinel, whatever the observer does; when the timer elapsed
\* first it is TimeoutError, also when the observer throws.
C16_DeadlineFailureValues ==
  (IsDeadline /\ result.state = "rejected") =>
    /\ \/ result.value = TimeoutError
       \/ task.state = "rejected" /\ result.value = task.value
    /\ (TimerElapsedFirst => result.value = TimeoutError)


\* C17: a call with a task that is no function fails at call time: nothing is
\* returned, the task is never invoked, no timer is started, no context and no
\* observer slot exist, and nothing is ever notified; registering an observer
\* that is no function throws and every piece of state, the slot with the
\* observer registered before included, stays as it was.
C17_NotInvocable ==
  /\ [](args.run # "function" =>
          /\ pc \in {"start", "threw"}
          /\ result = Pending
          /\ tasks = <<>>
          /\ timer = NoTimer
          /\ waits = <<>>
          /\ ctx = NoCtx
          /\ _notify = "noop"
          /\ ~setThrew
          /\ notes = <<>>
          /\ trace = <<>>)
  /\ [](_notify = "noop" \/ IsFunction(_notify))
  /\ [][setThrew' # setThrew =>
          /\ setThrew'
          /\ UNCHANGED <<op, args, pc, ctx, ctxClone, err, timer, _notify, tampered,
                         tasks, notes, waits, result, trace>>]_vars

C17_Witness ==
  /\ setThrew
  /\ _notify = "f"
  /\ notes # <<>>
  /\ notes[Len(notes)].to = "f"

\* C18: in every state of a retry sequence 0 <= completed <= max, max is the
\* value given at construction, and the interval queue holds max - completed
\* entries (it is empty exactly when the retries are exhausted); every change
\* of the context is one retry: completed + 1 and the front interval removed,
\* both in the same step, the step that starts this retry's timer with it.
C18_ContextInvariant ==
  /\ []((IsRetry /\ Called) =>
          /\ 0 <= ctx.retries[1]
          /\ ctx.retries[1] <= ctx.retries[2]
          /\ ctx.retries[2] = effectiveRetries(args.retries)
          /\ Len(ctx.intervals) = ctx.retries[2] - ctx.retries[1]
          /\ (ctx.intervals = <<>> <=> ctx.retries[1] = ctx.retries[2])
          /\ ctx.retries[1] = Len(waits))
  /\ [][(IsRetry /\ Called /\ (ctx' # ctx \/ waits' # waits)) =>
          /\ ctx'.retries = <<ctx.retries[1] + 1, ctx.retries[2]>>
          /\ ctx.intervals # <<>>
          /\ ctx'.intervals = Tail(ctx.intervals)
          /\ waits' = Append(waits, Head(ctx.intervals))]_vars

C18_Witness ==
  /\ IsRetry
  /\ pc = "done"
  /\ result.state = "rejected"
  /\ ctx.retries = <<3, 3>>
  /\ ctx.intervals = <<>>
  /\ Len(waits) = 3

\* C19: a retry sequence never makes more than 1 + retries task invocations or
\* starts more than retries timers, for any task and any observer, and once
\* no invocation is in flight, no timer is pending and no continuation is
\* queued, its promise is settled.
C19_BoundedAttempts ==
  (IsRetry /\ Called) =>
    /\ runs <= 1 + AskedRetries
    /\ Len(waits) <= AskedRetries
    /\ (task.state # "pending" /\ timer.state # "pending" /\ pc # "notify" =>
          pc = "done" /\ result.state \in {"fulfilled", "rejected"})

\* C20: the observer slot is read at each notification: a notification goes to
\* what the slot holds at that moment (the no-op while nothing is registered)
\* and is logged once, never altered, re-delivered or delivered later;
\* registering an observer changes the slot and nothing else.
C20_SlotReadAtNotify ==
  /\ [](\A k \in 1 .. Len(notes) : notes[k].to = "noop" \/ IsFunction(notes[k].to))
  /\ [][/\ Len(notes') \in {Len(notes), Len(notes) + 1}
        /\ SubSeq(notes', 1, Len(notes)) = notes
        /\ (Len(notes') = Len(notes) + 1 =>
              /\ notes'[Len(notes')].to = _notify
              /\ _notify' = _notify)
        /\ (_notify' # _notify =>
              UNCHANGED <<op, args, pc, ctx, ctxClone, err, timer, setThrew, tampered,
                          tasks, notes, waits, result, trace>>)]_vars

C20_Witness ==
  /\ IsRetry
  /\ Len(notes) = 3
  /\ notes[1].to = "noop"
  /\ notes[2].to = "f"
  /\ notes[3].to = "g"
  /\ ctx = Untouched(3)

====
